---- MODULE Spec2Model ----
(***************************************************************************)
(* DeAuthShield: the deauthentication-flood detector of src/detector.py,   *)
(* driven by the GUI of src/gui.py.  Time is the wall clock time.time(),   *)
(* counted in integer ticks.                                               *)
(***************************************************************************)
EXTENDS Integers, Sequences, FiniteSets, TLC

\* ---------------------------------------------------------------- bounds
\* Largest wall-clock reading explored.
MaxTime == 2
\* Largest number of frames the sniffer delivers in one session.
MaxPackets == 3
\* Largest number of backward adjustments of the wall clock.
MaxClockSteps == 1
\* Largest number of frames delivered while process_packet is followed line by line.
MaxConcPackets == 2
\* Largest number of firings of the GUI's statistics timer.
MaxRefresh == 1

\* Transmitter addresses (pkt.addr2) of the captured frames.
Macs == {"aa", "bb"}
\* A station whose frames are never deauthentication frames.
Others == {"cc"}
\* Integers the user can type into the threshold field (gui.py:30, 65).
Thresholds == {0, 1, 2}
\* Integers the user can type into the time-window field (gui.py:31, 66).
TimeWindows == {-1, 0, 1, 2}
\* What the log-path field yields (gui.py:67): None when it is blank.
LogPaths == {"None", "deauth.log"}
\* Captured frames: deauth is pkt.haslayer(Dot11Deauth), addr2 is pkt.addr2
\* (never read for a frame that is no deauthentication frame), time is pkt.time,
\* the clock reading at which the frame was captured.
Packets == {[deauth |-> TRUE, addr2 |-> m, time |-> t] : m \in Macs, t \in 0..MaxTime}
               \cup {[deauth |-> FALSE, addr2 |-> m, time |-> t] :
                         m \in Macs \cup Others, t \in 0..MaxTime}

\* Clicks on Start Monitoring after the first one.
MaxRestarts == 1
\* Calls of start_detection in one run of the simulator.
MaxSessions == 2
\* Calls of simulate_attack in one run of the simulator.
MaxAttacks == 2
\* Calls of generate_normal_packet in one run of the simulator.
MaxNormal == 1

\* deauth_simulator.py:68  packets = random.randint(15, 50)
MinAttackPackets == 15
MaxAttackPackets == 50
\* The packet counts drawn for an attack: the two ends of the range.
AttackSizes == {MinAttackPackets, MaxAttackPackets}
\* deauth_simulator.py:66  attack_type = random.choice([...])
AttackTypes == {"broadcast", "targeted", "flood"}
\* The threads that call simulate_attack: run() and the GUI's plot_attack.
Callers == {"run", "gui"}
\* get_stats() of a detector that has logged nothing.
NoStats == [deauth |-> 0, alerts |-> 0, broadcast |-> 0]
\* simulate_attack's locals when the caller is not inside it.
NoAttack == [type |-> "none", packets |-> 0, i |-> 0, at |-> "none"]

VARIABLES
    now,                  \* time.time()
    clock_steps,          \* backward adjustments of the wall clock so far
    detector,             \* gui.detector: "None" or "DeAuthDetector"
    threshold,            \* detector.threshold
    time_window,          \* detector.time_window
    packet_times,         \* detector.packet_times
    suspicious_macs,      \* detector.suspicious_macs
    total_deauth_packets, \* detector.total_deauth_packets
    alerts_triggered,     \* detector.alerts_triggered
    running,              \* detector.running
    console_output,       \* the QTextEdit the GUI and the detector append to
    sniffing,             \* the detector thread's sniff(): "idle", "active", "ended"
    sniffed,              \* frames sniff() has handed to prn so far
    events,               \* the deauth frames stamped by process_packet: <<[ts, mac, time]>>
    log_path,             \* detector.log_path: "None" or the path of the log file
    log_file,             \* the lines appended to the file at log_path
    pc,                   \* the detector thread's place in process_packet
    cur_mac,              \* process_packet's local mac
    cur_ts,               \* process_packet's local ts
    pkt_time,             \* pkt.time of the frame process_packet was handed
    gui_pc,               \* the GUI thread's place in update_stats
    rd_total,             \* update_stats: total_deauth_packets as read at line 78
    rd_alerts,            \* update_stats: alerts_triggered as read at line 79
    stats_label,          \* the counters shown by gui.stats_label
    refreshes,            \* firings of the statistics timer so far
    boundaries,           \* the counters as they stood between two ingests
    replaced,             \* the detectors gui.detector no longer refers to; their threads live on
    sim_running,          \* simulator DeauthDetector.running
    thread,               \* the simulator's QThread: "new", "started", "running", "finished"
    run_pc,               \* the simulator thread's place in run()
    attack_active,        \* simulator DeauthDetector.attack_active
    stats,                \* simulator DeauthDetector.stats
    cooldown_over,        \* current_time - last_attack_time > attack_cooldown
    attack,               \* simulate_attack's locals, per calling thread
    attack_detected,      \* emissions of the attack_detected signal so far
    sim_gui,              \* the simulator GUI thread: "idle", "stop_wait", "close_wait", "plot_attack"
    start_btn,            \* start_btn enabled (stop_btn is enabled when it is not)
    window,               \* the simulator's window: "open", or "closed" once closeEvent accepted
    sessions,             \* calls of start_detection so far
    attacks,              \* calls of simulate_attack so far
    normals,              \* calls of generate_normal_packet so far
    stopped,              \* a call of stop() has returned
    stats_at_stop         \* get_stats() as it stood when the stop() in progress was called

\* The variables of the line-by-line view of process_packet and update_stats.
conc_vars == <<pc, cur_mac, cur_ts, pkt_time, gui_pc, rd_total, rd_alerts, stats_label,
               refreshes, boundaries>>

\* The variables of the simulator, deauth_simulator.py.
sim_vars == <<sim_running, thread, run_pc, attack_active, stats, cooldown_over,
              attack, attack_detected, sim_gui, start_btn, window, sessions,
              attacks, normals, stopped, stats_at_stop>>

\* The variables of the monitor, detector.py and gui.py.
mon_vars == <<now, clock_steps, detector, threshold, time_window, packet_times,
              suspicious_macs, total_deauth_packets, alerts_triggered, running,
              console_output, sniffing, sniffed, events, log_path, log_file, conc_vars,
              replaced>>

vars == <<mon_vars, sim_vars>>

\* ------------------------------------------------------- detector.py
\* detector.py:32  msg = "[!] Deauth packet detected from {mac} at {ctime(ts)}"
deauth_msg(mac, ts) == [kind |-> "deauth", mac |-> mac, ts |-> ts, count |-> 0, window |-> 0]

\* detector.py:41  alert_msg = "[ALERT] Threshold exceeded: {len} deauth packets in {tw}s"
alert_msg(count, tw) == [kind |-> "alert", mac |-> "none", ts |-> 0, count |-> count, window |-> tw]

\* gui.py:69  "[+] Monitoring started..."
started_msg == [kind |-> "started", mac |-> "none", ts |-> 0, count |-> 0, window |-> 0]

\* Mutant of AppendTime: the new timestamp is put at the front.
PrependTime(times, ts) == <<ts>> \o times

\* detector.py:29  self.packet_times.append(ts)
AppendTime(times, ts) == Append(times, ts)

\* Mutant of Evict: the filtered list is not assigned back.
EvictNone(times, ts, tw) == times

\* Mutant of Evict: only the oldest entry is dropped, and only once.
EvictOnlyOldest(times, ts, tw) ==
    IF times # <<>> /\ ts - Head(times) > tw THEN Tail(times) ELSE times

\* Mutant of Evict: the boundary entry (ts - t = tw) is dropped too.
EvictStrict(times, ts, tw) == SelectSeq(times, LAMBDA t : ts - t < tw)

\* detector.py:39  [t for t in self.packet_times if ts - t <= self.time_window]
Evict(times, ts, tw) == SelectSeq(times, LAMBDA t : ts - t <= tw)

\* detector.py:40  len(self.packet_times) >= self.threshold
AlertCondition(n, th) == n >= th

\* Mutant of AddMac: the set is assigned, not added to.
AddMacReplace(macs, mac) == {mac}

\* detector.py:31  self.suspicious_macs.add(mac)
AddMac(macs, mac) == macs \cup {mac}

\* Mutant of Counted: the total follows the window instead of the packets.
CountedWindow(n) == Len(packet_times) + 1

\* Mutant of Counted: the counter is decremented.
CountedDown(n) == n - 1

\* Mutant of Counted: the increment is lost.
CountedLost(n) == n

\* detector.py:27  self.total_deauth_packets += 1
Counted(n) == n + 1

\* Mutant of window_count: the total of the session is reported.
window_count_total(kept) == total_deauth_packets

\* detector.py:41  {len(self.packet_times)}, read after line 39 reassigned the list
window_count(kept) == Len(kept)

\* Mutant of haslayer: every captured frame is taken for a deauthentication.
haslayer_any(pkt) == TRUE

\* detector.py:26  pkt.haslayer(Dot11Deauth)
haslayer(pkt) == pkt.deauth

\* ------------------------------------------------------------ gui.py
\* gui.py:63-72  DeAuthShieldGUI.start_monitoring, with detector.py:8-20
\* DeAuthDetector.__init__ and Thread.start().  One monitoring session is followed.
start_monitoring ==
    /\ detector = "None"
    /\ \E th \in Thresholds, tw \in TimeWindows, lp \in LogPaths :
          /\ threshold' = th
          /\ time_window' = tw
          /\ log_path' = lp
    /\ console_output' = Append(console_output, started_msg)
    /\ detector' = "DeAuthDetector"
    /\ packet_times' = <<>>
    /\ suspicious_macs' = {}
    /\ total_deauth_packets' = 0
    /\ alerts_triggered' = 0
    /\ running' = TRUE
    /\ sniffing' = "active"
    /\ UNCHANGED <<sim_vars, replaced, now, clock_steps, sniffed, events, log_file, conc_vars>>

\* ------------------------------------------------------- environment
\* time.time() advances.
Tick ==
    /\ now < MaxTime
    /\ now' = now + 1
    /\ UNCHANGED <<sim_vars, replaced, clock_steps, detector, threshold, time_window, packet_times,
                   suspicious_macs, total_deauth_packets, alerts_triggered, running,
                   console_output, sniffing, sniffed, events, log_path, log_file,
                   conc_vars>>

\* time.time() is the wall clock: the system may set it back.
ClockStepBack ==
    /\ clock_steps < MaxClockSteps
    /\ \E t \in 0..(now - 1) : now' = t
    /\ clock_steps' = clock_steps + 1
    /\ UNCHANGED <<sim_vars, replaced, detector, threshold, time_window, packet_times,
                   suspicious_macs, total_deauth_packets, alerts_triggered, running,
                   console_output, sniffing, sniffed, events, log_path, log_file,
                   conc_vars>>

Init ==
    /\ now = 0
    /\ clock_steps = 0
    /\ detector = "None"
    /\ threshold = 0
    /\ time_window = 0
    /\ packet_times = <<>>
    /\ suspicious_macs = {}
    /\ total_deauth_packets = 0
    /\ alerts_triggered = 0
    /\ running = FALSE
    /\ console_output = <<>>
    /\ sniffing = "idle"
    /\ sniffed = 0
    /\ events = <<>>
    /\ log_path = "None"
    /\ log_file = <<>>
    /\ pc = "idle"
    /\ cur_mac = "none"
    /\ cur_ts = 0
    /\ pkt_time = 0
    /\ gui_pc = "idle"
    /\ rd_total = 0
    /\ rd_alerts = 0
    /\ stats_label = [total |-> 0, alerts |-> 0, macs |-> {}]
    /\ refreshes = 0
    /\ boundaries = {[total |-> 0, alerts |-> 0, macs |-> {}]}
    /\ replaced = <<>>
    /\ sim_running = FALSE
    /\ thread = "new"
    /\ run_pc = "none"
    /\ attack_active = FALSE
    /\ stats = [total |-> 0, deauth |-> 0, alerts |-> 0, broadcast |-> 0]
    /\ cooldown_over = TRUE
    /\ attack = [c \in Callers |-> NoAttack]
    /\ attack_detected = 0
    /\ sim_gui = "idle"
    /\ start_btn = TRUE
    /\ window = "open"
    /\ sessions = 0
    /\ attacks = 0
    /\ normals = 0
    /\ stopped = FALSE
    /\ stats_at_stop = NoStats

\* ------------------------------------- detector.py, process_packet
\* The detector thread runs process_packet line by line while the GUI thread
\* goes on; nothing in the code serialises them.  Lines that touch nothing
\* another thread reads are taken together.
det_vars == <<detector, threshold, time_window, packet_times, suspicious_macs,
              total_deauth_packets, alerts_triggered, running, console_output,
              sniffing, sniffed, events, log_path, log_file, pc, cur_mac, cur_ts,
              pkt_time>>

gui_vars == <<gui_pc, rd_total, rd_alerts, stats_label, refreshes>>

\* The counters update_stats shows, as they stand.
Counters(total, alerts, macs) == [total |-> total, alerts |-> alerts, macs |-> macs]

\* detector.py:23  stop_filter, evaluated when prn returns.
after_prn == IF running THEN "active" ELSE "ended"

\* detector.py:23, 25-26  sniff hands a frame to process_packet, which returns
\* at once unless the frame is a deauthentication frame.  At most limit frames
\* are followed; they were captured at one of the clock readings in times, no
\* later than they are handed over.
pp_enter(limit, times) ==
    /\ sniffing = "active"
    /\ pc = "idle"
    /\ sniffed < limit
    /\ sniffed' = sniffed + 1
    /\ \E pkt \in Packets :
          /\ pkt.time \in times
          /\ pkt.time <= now
          /\ IF haslayer(pkt)
             THEN /\ pc' = "l27"
                  /\ cur_mac' = pkt.addr2
                  /\ pkt_time' = pkt.time
                  /\ sniffing' = sniffing
             ELSE /\ pc' = "idle"
                  /\ cur_mac' = cur_mac
                  /\ pkt_time' = pkt_time
                  /\ sniffing' = after_prn
    /\ UNCHANGED <<sim_vars, replaced, now, clock_steps, detector, threshold, time_window, packet_times,
                   suspicious_macs, total_deauth_packets, alerts_triggered, running,
                   console_output, events, log_path, log_file, cur_ts, gui_vars, boundaries>>

\* detector.py:27  self.total_deauth_packets += 1
pp_count ==
    /\ pc = "l27"
    /\ total_deauth_packets' = Counted(total_deauth_packets)
    /\ pc' = "l28"
    /\ UNCHANGED <<sim_vars, replaced, now, clock_steps, detector, threshold, time_window, packet_times,
                   suspicious_macs, alerts_triggered, running, console_output,
                   sniffing, sniffed, events, log_path, log_file, cur_mac, cur_ts, pkt_time,
                   gui_vars, boundaries>>

\* detector.py:28-31  ts = time.time(); packet_times.append(ts);
\* suspicious_macs.add(pkt.addr2)
pp_stamp ==
    /\ pc = "l28"
    /\ cur_ts' = now
    /\ packet_times' = AppendTime(packet_times, now)
    /\ suspicious_macs' = AddMac(suspicious_macs, cur_mac)
    /\ events' = Append(events, [ts |-> now, mac |-> cur_mac, time |-> pkt_time])
    /\ pc' = "l32"
    /\ UNCHANGED <<sim_vars, replaced, now, clock_steps, detector, threshold, time_window,
                   total_deauth_packets, alerts_triggered, running, console_output,
                   sniffing, sniffed, log_path, log_file, cur_mac, pkt_time, gui_vars, boundaries>>

\* detector.py:32-33  msg is formatted and appended to the shared console
pp_msg ==
    /\ pc = "l32"
    /\ console_output' = Append(console_output, deauth_msg(cur_mac, cur_ts))
    /\ pc' = "l34"
    /\ UNCHANGED <<sim_vars, replaced, now, clock_steps, detector, threshold, time_window,
                   packet_times, suspicious_macs, total_deauth_packets, alerts_triggered,
                   running, sniffing, sniffed, events, log_path, log_file, cur_mac,
                   cur_ts, pkt_time, gui_vars, boundaries>>

\* detector.py:34-39  with a log path, open() succeeds and the line is written
\* to the log file; then the detector filters its own packet_times
pp_evict ==
    /\ pc = "l34"
    /\ log_file' = IF log_path # "None"
                   THEN Append(log_file, deauth_msg(cur_mac, cur_ts))
                   ELSE log_file
    /\ packet_times' = Evict(packet_times, cur_ts, time_window)
    /\ pc' = "l40"
    /\ UNCHANGED <<sim_vars, replaced, now, clock_steps, detector, threshold, time_window,
                   suspicious_macs, total_deauth_packets, alerts_triggered, running,
                   console_output, sniffing, sniffed, events, log_path, cur_mac, cur_ts, pkt_time,
                   gui_vars, boundaries>>

\* detector.py:34-35  open(self.log_path, 'a') raises OSError (the path is a
\* directory, its directory is missing, it is not writable): the exception
\* leaves process_packet and sniff, and the detector thread is over.
pp_open_raises ==
    /\ pc = "l34"
    /\ log_path # "None"
    /\ pc' = "raised"
    /\ sniffing' = "raised"
    /\ UNCHANGED <<sim_vars, replaced, now, clock_steps, detector, threshold, time_window,
                   packet_times, suspicious_macs, total_deauth_packets, alerts_triggered,
                   running, console_output, sniffed, events, log_path, log_file, cur_mac,
                   cur_ts, pkt_time, gui_vars, boundaries>>

\* detector.py:40-42  the threshold test and the alert line
pp_test ==
    /\ pc = "l40"
    /\ IF AlertCondition(Len(packet_times), threshold)
       THEN /\ console_output' =
                  Append(console_output,
                         alert_msg(window_count(packet_times),
                                   time_window))
            /\ pc' = "l43"
            /\ sniffing' = sniffing
            /\ boundaries' = boundaries
       ELSE /\ console_output' = console_output
            /\ pc' = "idle"
            /\ sniffing' = after_prn
            /\ boundaries' = boundaries \cup
                   {Counters(total_deauth_packets, alerts_triggered, suspicious_macs)}
    /\ UNCHANGED <<sim_vars, replaced, now, clock_steps, detector, threshold, time_window, packet_times,
                   suspicious_macs, total_deauth_packets, alerts_triggered, running,
                   sniffed, events, log_path, log_file, cur_mac, cur_ts, pkt_time, gui_vars>>

\* detector.py:43  self.alerts_triggered += 1, then process_packet returns
pp_alert ==
    /\ pc = "l43"
    /\ alerts_triggered' = alerts_triggered + 1
    /\ pc' = "idle"
    /\ sniffing' = after_prn
    /\ boundaries' = boundaries \cup
           {Counters(total_deauth_packets, alerts_triggered + 1, suspicious_macs)}
    /\ UNCHANGED <<sim_vars, replaced, now, clock_steps, detector, threshold, time_window, packet_times,
                   suspicious_macs, total_deauth_packets, running, console_output,
                   sniffed, events, log_path, log_file, cur_mac, cur_ts, pkt_time, gui_vars>>

\* gui.py:74-78  the timer fires; update_stats reads total_deauth_packets
us_total ==
    /\ detector = "DeAuthDetector"
    /\ gui_pc = "idle"
    /\ refreshes < MaxRefresh
    /\ refreshes' = refreshes + 1
    /\ rd_total' = total_deauth_packets
    /\ gui_pc' = "l79"
    /\ UNCHANGED <<sim_vars, replaced, now, clock_steps, det_vars, rd_alerts, stats_label, boundaries>>

\* gui.py:79  update_stats reads alerts_triggered
us_alerts ==
    /\ gui_pc = "l79"
    /\ rd_alerts' = alerts_triggered
    /\ gui_pc' = "l80"
    /\ UNCHANGED <<sim_vars, replaced, now, clock_steps, det_vars, rd_total, stats_label, refreshes,
                   boundaries>>

\* Mutant of us_macs: the set is emptied while it is listed.
us_macs_drain ==
    /\ gui_pc = "l80"
    /\ stats_label' = Counters(rd_total, rd_alerts, suspicious_macs)
    /\ suspicious_macs' = {}
    /\ gui_pc' = "idle"
    /\ UNCHANGED <<sim_vars, replaced, now, clock_steps, detector, threshold, time_window, packet_times,
                   total_deauth_packets, alerts_triggered, running, console_output,
                   sniffing, sniffed, events, log_path, log_file, pc, cur_mac,
                   cur_ts, pkt_time, rd_total, rd_alerts, refreshes, boundaries>>

\* gui.py:77-80  update_stats lists suspicious_macs and sets the label's text
us_macs ==
    /\ gui_pc = "l80"
    /\ stats_label' = Counters(rd_total, rd_alerts, suspicious_macs)
    /\ gui_pc' = "idle"
    /\ UNCHANGED <<sim_vars, replaced, now, clock_steps, det_vars, rd_total, rd_alerts, refreshes,
                   boundaries>>

Next ==
    \/ start_monitoring
    \/ pp_enter(MaxPackets, {0})
    \/ pp_count
    \/ pp_stamp
    \/ pp_msg
    \/ pp_evict
    \/ pp_open_raises
    \/ pp_test
    \/ pp_alert
    \/ Tick
    \/ ClockStepBack

\* The detector thread, with the clock advancing and being set back.  The
\* frames carry pkt.time = 0: process_packet never reads it.
Spec == Init /\ [][Next]_vars

NextCapture ==
    \/ start_monitoring
    \/ pp_enter(MaxConcPackets, 0..MaxTime)
    \/ pp_count
    \/ pp_stamp
    \/ pp_msg
    \/ pp_evict
    \/ pp_open_raises
    \/ pp_test
    \/ pp_alert
    \/ Tick

\* The detector thread with frames of every capture time, handed to
\* process_packet when they are captured or later.
SpecCapture == Init /\ [][NextCapture]_vars

NextConc ==
    \/ start_monitoring
    \/ pp_enter(MaxConcPackets, {0})
    \/ pp_count
    \/ pp_stamp
    \/ pp_msg
    \/ pp_evict
    \/ pp_open_raises
    \/ pp_test
    \/ pp_alert
    \/ us_total
    \/ us_alerts
    \/ us_macs
    \/ Tick

\* The detector thread and the statistics timer, with the clock advancing.
\* The frames carry pkt.time = 0.
SpecConc == Init /\ [][NextConc]_vars

\* ------------------------------------------- gui.py, Start clicked again
\* The Start button stays enabled.  A further click builds a new
\* DeAuthDetector and assigns it to gui.detector; the thread of the detector
\* it replaces goes on sniffing the interface.

\* gui.py:63-72  start_monitoring while gui.detector is a running detector.
\* The replaced detector keeps its fields and its thread, wherever in
\* process_packet that thread stands.
start_monitoring_again ==
    /\ detector = "DeAuthDetector"
    /\ Len(replaced) < MaxRestarts
    /\ replaced' = Append(replaced,
                          [threshold |-> threshold, time_window |-> time_window,
                           log_path |-> log_path, packet_times |-> packet_times,
                           suspicious_macs |-> suspicious_macs,
                           total_deauth_packets |-> total_deauth_packets,
                           alerts_triggered |-> alerts_triggered,
                           running |-> running, sniffing |-> sniffing,
                           pc |-> pc, cur_mac |-> cur_mac, cur_ts |-> cur_ts])
    /\ \E th \in Thresholds, tw \in TimeWindows, lp \in LogPaths :
          /\ threshold' = th
          /\ time_window' = tw
          /\ log_path' = lp
    /\ console_output' = Append(console_output, started_msg)
    /\ packet_times' = <<>>
    /\ suspicious_macs' = {}
    /\ total_deauth_packets' = 0
    /\ alerts_triggered' = 0
    /\ running' = TRUE
    /\ sniffing' = "active"
    /\ pc' = "idle"
    /\ cur_mac' = "none"
    /\ cur_ts' = 0
    /\ pkt_time' = 0
    /\ UNCHANGED <<sim_vars, now, clock_steps, detector, sniffed, events, log_file,
                   gui_vars, boundaries>>

\* detector.py:23  stop_filter of a replaced detector d, evaluated when prn returns.
replaced_after_prn(d) == IF d.running THEN "active" ELSE "ended"

\* detector.py:23, 25-26  the thread of the k-th replaced detector is handed a
\* frame; its pkt.time is read by nothing.
replaced_pp_enter(k) ==
    /\ replaced[k].sniffing = "active"
    /\ replaced[k].pc = "idle"
    /\ sniffed < MaxConcPackets
    /\ sniffed' = sniffed + 1
    /\ \E pkt \in Packets :
          replaced' = [replaced EXCEPT ![k] =
              IF haslayer(pkt)
              THEN [@ EXCEPT !.pc = "l27", !.cur_mac = pkt.addr2]
              ELSE [@ EXCEPT !.sniffing = replaced_after_prn(replaced[k])]]
    /\ UNCHANGED <<sim_vars, now, clock_steps, detector, threshold, time_window,
                   packet_times, suspicious_macs, total_deauth_packets,
                   alerts_triggered, running, console_output, sniffing, events,
                   log_path, log_file, conc_vars>>

\* detector.py:27  self.total_deauth_packets += 1, in the k-th replaced detector
replaced_pp_count(k) ==
    /\ replaced[k].pc = "l27"
    /\ replaced' = [replaced EXCEPT ![k] =
           [@ EXCEPT !.total_deauth_packets = Counted(@), !.pc = "l28"]]
    /\ UNCHANGED <<sim_vars, now, clock_steps, detector, threshold, time_window,
                   packet_times, suspicious_macs, total_deauth_packets,
                   alerts_triggered, running, console_output, sniffing, sniffed,
                   events, log_path, log_file, conc_vars>>

\* detector.py:28-31  ts = time.time(); packet_times.append(ts);
\* suspicious_macs.add(pkt.addr2), in the k-th replaced detector
replaced_pp_stamp(k) ==
    /\ replaced[k].pc = "l28"
    /\ replaced' = [replaced EXCEPT ![k] =
           [@ EXCEPT !.cur_ts = now,
                     !.packet_times = AppendTime(@, now),
                     !.suspicious_macs = AddMac(@, replaced[k].cur_mac),
                     !.pc = "l32"]]
    /\ UNCHANGED <<sim_vars, now, clock_steps, detector, threshold, time_window,
                   packet_times, suspicious_macs, total_deauth_packets,
                   alerts_triggered, running, console_output, sniffing, sniffed,
                   events, log_path, log_file, conc_vars>>

\* detector.py:32-33  the k-th replaced detector appends msg to the console
\* it shares with every other detector
replaced_pp_msg(k) ==
    /\ replaced[k].pc = "l32"
    /\ console_output' = Append(console_output,
                                deauth_msg(replaced[k].cur_mac, replaced[k].cur_ts))
    /\ replaced' = [replaced EXCEPT ![k].pc = "l34"]
    /\ UNCHANGED <<sim_vars, now, clock_steps, detector, threshold, time_window,
                   packet_times, suspicious_macs, total_deauth_packets,
                   alerts_triggered, running, sniffing, sniffed, events, log_path,
                   log_file, conc_vars>>

\* detector.py:34-39  the k-th replaced detector writes the line to its log
\* file, then filters its own packet_times
replaced_pp_evict(k) ==
    /\ replaced[k].pc = "l34"
    /\ log_file' = IF replaced[k].log_path # "None"
                   THEN Append(log_file,
                               deauth_msg(replaced[k].cur_mac, replaced[k].cur_ts))
                   ELSE log_file
    /\ replaced' = [replaced EXCEPT ![k] =
           [@ EXCEPT !.packet_times =
                         Evict(@, replaced[k].cur_ts,
                               replaced[k].time_window),
                     !.pc = "l40"]]
    /\ UNCHANGED <<sim_vars, now, clock_steps, detector, threshold, time_window,
                   packet_times, suspicious_macs, total_deauth_packets,
                   alerts_triggered, running, console_output, sniffing, sniffed,
                   events, log_path, conc_vars>>

\* detector.py:34-35  open() raises in the k-th replaced detector: its thread
\* is over.
replaced_pp_open_raises(k) ==
    /\ replaced[k].pc = "l34"
    /\ replaced[k].log_path # "None"
    /\ replaced' = [replaced EXCEPT ![k] =
           [@ EXCEPT !.pc = "raised", !.sniffing = "raised"]]
    /\ UNCHANGED <<sim_vars, now, clock_steps, detector, threshold, time_window,
                   packet_times, suspicious_macs, total_deauth_packets,
                   alerts_triggered, running, console_output, sniffing, sniffed,
                   events, log_path, log_file, conc_vars>>

\* detector.py:40-42  the threshold test and the alert line of the k-th
\* replaced detector
replaced_pp_test(k) ==
    /\ replaced[k].pc = "l40"
    /\ IF AlertCondition(Len(replaced[k].packet_times), replaced[k].threshold)
       THEN /\ console_output' =
                  Append(console_output,
                         alert_msg(window_count(replaced[k].packet_times),
                                   replaced[k].time_window))
            /\ replaced' = [replaced EXCEPT ![k].pc = "l43"]
       ELSE /\ console_output' = console_output
            /\ replaced' = [replaced EXCEPT ![k] =
                   [@ EXCEPT !.pc = "idle", !.sniffing = replaced_after_prn(replaced[k])]]
    /\ UNCHANGED <<sim_vars, now, clock_steps, detector, threshold, time_window,
                   packet_times, suspicious_macs, total_deauth_packets,
                   alerts_triggered, running, sniffing, sniffed, events, log_path,
                   log_file, conc_vars>>

\* detector.py:43  self.alerts_triggered += 1 in the k-th replaced detector,
\* then process_packet returns
replaced_pp_alert(k) ==
    /\ replaced[k].pc = "l43"
    /\ replaced' = [replaced EXCEPT ![k] =
           [@ EXCEPT !.alerts_triggered = @ + 1, !.pc = "idle",
                     !.sniffing = replaced_after_prn(replaced[k])]]
    /\ UNCHANGED <<sim_vars, now, clock_steps, detector, threshold, time_window,
                   packet_times, suspicious_macs, total_deauth_packets,
                   alerts_triggered, running, console_output, sniffing, sniffed,
                   events, log_path, log_file, conc_vars>>

NextGui ==
    \/ start_monitoring
    \/ start_monitoring_again
    \/ pp_enter(MaxConcPackets, {0})
    \/ pp_count
    \/ pp_stamp
    \/ pp_msg
    \/ pp_evict
    \/ pp_open_raises
    \/ pp_test
    \/ pp_alert
    \/ \E k \in DOMAIN replaced : replaced_pp_enter(k)
    \/ \E k \in DOMAIN replaced : replaced_pp_count(k)
    \/ \E k \in DOMAIN replaced : replaced_pp_stamp(k)
    \/ \E k \in DOMAIN replaced : replaced_pp_msg(k)
    \/ \E k \in DOMAIN replaced : replaced_pp_evict(k)
    \/ \E k \in DOMAIN replaced : replaced_pp_open_raises(k)
    \/ \E k \in DOMAIN replaced : replaced_pp_test(k)
    \/ \E k \in DOMAIN replaced : replaced_pp_alert(k)
    \/ Tick

\* The monitor with Start clicked again, every detector thread line by line.
\* The frames of the detector in use carry pkt.time = 0.
SpecGui == Init /\ [][NextGui]_vars

\* ------------------------------------------------ deauth_simulator.py
\* The simulator's detector is a QThread whose run() loop and whose
\* simulate_attack share running, attack_active and stats with the GUI
\* thread; nothing serialises them, so every line that writes a shared field
\* is a step of its own.  Uptime and rate are left out: they depend on nothing
\* but the clock.  A stats[...] += 1 is one step: the interpreter switches
\* threads between calls and loop iterations, not inside the statement.

\* deauth_simulator.py:135-146  get_stats: the counters it returns.
get_stats == [deauth |-> stats.deauth, alerts |-> stats.alerts,
              broadcast |-> stats.broadcast]

\* QThread.isRunning()
isRunning == thread \in {"started", "running"}

\* deauth_simulator.py:128  self.stats["total"] += 1
log_total(st) == [st EXCEPT !.total = @ + 1]

\* deauth_simulator.py:129  self.stats["deauth"] += 1
log_deauth(st) == [st EXCEPT !.deauth = @ + 1]

\* deauth_simulator.py:93  int(packets * 0.3)
detect_index(packets) == (3 * packets) \div 10

\* deauth_simulator.py:546-554  start_detection: QThread.start() schedules
\* run() on the detector thread; it does nothing if the thread is running.
start_detection ==
    /\ window = "open"
    /\ sim_gui = "idle"
    /\ start_btn
    /\ sessions < MaxSessions
    /\ sessions' = sessions + 1
    /\ thread' = IF isRunning THEN thread ELSE "started"
    /\ start_btn' = FALSE
    /\ UNCHANGED <<mon_vars, sim_running, run_pc, attack_active, stats, cooldown_over,
                   attack, attack_detected, sim_gui, window, attacks, normals, stopped,
                   stats_at_stop>>

\* deauth_simulator.py:43-45  run() begins on the detector thread.
run_begin ==
    /\ thread = "started"
    /\ thread' = "running"
    /\ sim_running' = TRUE
    /\ run_pc' = "while"
    /\ UNCHANGED <<mon_vars, attack_active, stats, cooldown_over, attack,
                   attack_detected, sim_gui, start_btn, window, sessions, attacks,
                   normals, stopped, stats_at_stop>>

\* deauth_simulator.py:48  while self.running
run_while ==
    /\ run_pc = "while"
    /\ IF sim_running
       THEN /\ run_pc' = "body"
            /\ thread' = thread
       ELSE /\ run_pc' = "none"
            /\ thread' = "finished"
    /\ UNCHANGED <<mon_vars, sim_running, attack_active, stats, cooldown_over, attack,
                   attack_detected, sim_gui, start_btn, window, sessions, attacks,
                   normals, stopped, stats_at_stop>>

\* deauth_simulator.py:63-73  simulate_attack entered by caller c.
simulate_attack(c) ==
    /\ attacks < MaxAttacks
    /\ attacks' = attacks + 1
    /\ attack_active' = TRUE
    /\ \E ty \in AttackTypes, n \in AttackSizes :
          attack' = [attack EXCEPT ![c] = [type |-> ty, packets |-> n, i |-> 0,
                                            at |-> "loop"]]

\* deauth_simulator.py:50-53  the condition of the if holds: no attack is
\* active, the cooldown is over and the draw falls below 0.002.
run_test ==
    /\ run_pc = "body"
    /\ ~attack_active
    /\ cooldown_over
    /\ run_pc' = "l54"
    /\ UNCHANGED <<mon_vars, sim_running, thread, attack_active, stats, cooldown_over,
                   attack, attack_detected, sim_gui, start_btn, window, sessions,
                   attacks, normals, stopped, stats_at_stop>>

\* deauth_simulator.py:54, 63-73  run() calls simulate_attack, whatever
\* attack_active has become since the test of line 51.
run_attack ==
    /\ run_pc = "l54"
    /\ simulate_attack("run")
    /\ run_pc' = "attack"
    /\ UNCHANGED <<mon_vars, sim_running, thread, stats, cooldown_over, attack_detected,
                   sim_gui, start_btn, window, sessions, normals, stopped,
                   stats_at_stop>>

\* deauth_simulator.py:50-53  the condition of the if is false.
run_no_attack ==
    /\ run_pc = "body"
    /\ run_pc' = "normal"
    /\ UNCHANGED <<mon_vars, sim_running, thread, attack_active, stats, cooldown_over,
                   attack, attack_detected, sim_gui, start_btn, window, sessions,
                   attacks, normals, stopped, stats_at_stop>>

\* deauth_simulator.py:76-90, 112-127  an iteration of simulate_attack's loop
\* begins: the addresses are drawn, a broadcast attack counts the packet in
\* stats["broadcast"] (line 80), and log_packet builds the packet and emits it.
attack_packet(c) ==
    /\ attack[c].at = "loop"
    /\ attack[c].i < attack[c].packets
    /\ stats' = [stats EXCEPT !.broadcast =
                     IF attack[c].type = "broadcast" THEN @ + 1 ELSE @]
    /\ attack' = [attack EXCEPT ![c].at = "l128"]
    /\ UNCHANGED <<mon_vars, sim_running, thread, run_pc, attack_active, cooldown_over,
                   attack_detected, sim_gui, start_btn, window, sessions, attacks,
                   normals, stopped, stats_at_stop>>

\* deauth_simulator.py:128  log_packet: self.stats["total"] += 1
attack_log_total(c) ==
    /\ attack[c].at = "l128"
    /\ stats' = log_total(stats)
    /\ attack' = [attack EXCEPT ![c].at = "l129"]
    /\ UNCHANGED <<mon_vars, sim_running, thread, run_pc, attack_active, cooldown_over,
                   attack_detected, sim_gui, start_btn, window, sessions, attacks,
                   normals, stopped, stats_at_stop>>

\* deauth_simulator.py:129  log_packet: self.stats["deauth"] += 1
attack_log_deauth(c) ==
    /\ attack[c].at = "l129"
    /\ stats' = log_deauth(stats)
    /\ attack' = [attack EXCEPT ![c].at = "l93"]
    /\ UNCHANGED <<mon_vars, sim_running, thread, run_pc, attack_active, cooldown_over,
                   attack_detected, sim_gui, start_btn, window, sessions, attacks,
                   normals, stopped, stats_at_stop>>

\* deauth_simulator.py:93-99  attack_detected is emitted in the iteration
\* i = int(packets * 0.3); the iteration sleeps and the loop goes on.
attack_detect(c) ==
    /\ attack[c].at = "l93"
    /\ attack_detected' = IF attack[c].i = detect_index(attack[c].packets)
                          THEN attack_detected + 1 ELSE attack_detected
    /\ attack' = [attack EXCEPT ![c].i = @ + 1, ![c].at = "loop"]
    /\ UNCHANGED <<mon_vars, sim_running, thread, run_pc, attack_active, stats,
                   cooldown_over, sim_gui, start_btn, window, sessions, attacks,
                   normals, stopped, stats_at_stop>>

\* deauth_simulator.py:101  the loop is over: self.attack_active = False
attack_over(c) ==
    /\ attack[c].at = "loop"
    /\ attack[c].i = attack[c].packets
    /\ attack_active' = FALSE
    /\ attack' = [attack EXCEPT ![c].at = "l102"]
    /\ UNCHANGED <<mon_vars, sim_running, thread, run_pc, stats, cooldown_over,
                   attack_detected, sim_gui, start_btn, window, sessions, attacks,
                   normals, stopped, stats_at_stop>>

\* Mutant of log_alert: the attack is counted once more.
log_alert_twice(st) == [st EXCEPT !.alerts = @ + 2]

\* deauth_simulator.py:102  self.stats["alerts"] += 1
log_alert(st) == [st EXCEPT !.alerts = @ + 1]

\* deauth_simulator.py:102-103, 55  stats["alerts"] += 1; simulate_attack
\* returns to run(), which sets last_attack_time.
attack_end_run ==
    /\ attack["run"].at = "l102"
    /\ stats' = log_alert(stats)
    /\ attack' = [attack EXCEPT !["run"] = NoAttack]
    /\ cooldown_over' = FALSE
    /\ run_pc' = "normal"
    /\ UNCHANGED <<mon_vars, sim_running, thread, attack_active, attack_detected,
                   sim_gui, start_btn, window, sessions, attacks, normals, stopped,
                   stats_at_stop>>

\* deauth_simulator.py:102-103, 735  stats["alerts"] += 1; simulate_attack
\* returns to plot_attack.
attack_end_gui ==
    /\ attack["gui"].at = "l102"
    /\ stats' = log_alert(stats)
    /\ attack' = [attack EXCEPT !["gui"] = NoAttack]
    /\ sim_gui' = "idle"
    /\ UNCHANGED <<mon_vars, sim_running, thread, run_pc, attack_active, cooldown_over,
                   attack_detected, start_btn, window, sessions, attacks, normals,
                   stopped, stats_at_stop>>

\* deauth_simulator.py:58-59, 105-110, 112-127  generate_normal_packet:
\* log_packet builds the packet and emits it.
run_normal ==
    /\ run_pc = "normal"
    /\ normals < MaxNormal
    /\ normals' = normals + 1
    /\ run_pc' = "l128"
    /\ UNCHANGED <<mon_vars, sim_running, thread, attack_active, stats, cooldown_over,
                   attack, attack_detected, sim_gui, start_btn, window, sessions,
                   attacks, stopped, stats_at_stop>>

\* deauth_simulator.py:128  log_packet: self.stats["total"] += 1
run_log_total ==
    /\ run_pc = "l128"
    /\ stats' = log_total(stats)
    /\ run_pc' = "l129"
    /\ UNCHANGED <<mon_vars, sim_running, thread, attack_active, cooldown_over, attack,
                   attack_detected, sim_gui, start_btn, window, sessions, attacks,
                   normals, stopped, stats_at_stop>>

\* deauth_simulator.py:129, 61  log_packet: self.stats["deauth"] += 1; the
\* loop sleeps and tests running again.
run_log_deauth ==
    /\ run_pc = "l129"
    /\ stats' = log_deauth(stats)
    /\ run_pc' = "while"
    /\ UNCHANGED <<mon_vars, sim_running, thread, attack_active, cooldown_over, attack,
                   attack_detected, sim_gui, start_btn, window, sessions, attacks,
                   normals, stopped, stats_at_stop>>

\* deauth_simulator.py:58, 61  no normal packet in this iteration.
run_sleep ==
    /\ run_pc = "normal"
    /\ run_pc' = "while"
    /\ UNCHANGED <<mon_vars, sim_running, thread, attack_active, stats, cooldown_over,
                   attack, attack_detected, sim_gui, start_btn, window, sessions,
                   attacks, normals, stopped, stats_at_stop>>

\* deauth_simulator.py:52  attack_cooldown seconds have passed since
\* last_attack_time.
cooldown_elapses ==
    /\ ~cooldown_over
    /\ cooldown_over' = TRUE
    /\ UNCHANGED <<mon_vars, sim_running, thread, run_pc, attack_active, stats, attack,
                   attack_detected, sim_gui, start_btn, window, sessions, attacks,
                   normals, stopped, stats_at_stop>>

\* deauth_simulator.py:556-558, 148-151  stop_detection calls stop():
\* running = False, then wait() for the detector thread.
stop_call ==
    /\ window = "open"
    /\ sim_gui = "idle"
    /\ ~start_btn
    /\ sim_running' = FALSE
    /\ sim_gui' = "stop_wait"
    /\ stats_at_stop' = get_stats
    /\ UNCHANGED <<mon_vars, thread, run_pc, attack_active, stats, cooldown_over,
                   attack, attack_detected, start_btn, window, sessions, attacks,
                   normals, stopped>>

\* deauth_simulator.py:151, 559-562  wait() returns once run() has
\* returned; stop_detection enables the start button again.
stop_return ==
    /\ sim_gui = "stop_wait"
    /\ ~isRunning
    /\ sim_gui' = "idle"
    /\ start_btn' = TRUE
    /\ stopped' = TRUE
    /\ stats_at_stop' = NoStats
    /\ UNCHANGED <<mon_vars, sim_running, thread, run_pc, attack_active, stats,
                   cooldown_over, attack, attack_detected, window, sessions, attacks,
                   normals>>

\* deauth_simulator.py:732-735  plot_attack calls simulate_attack on the
\* GUI thread, whatever the detector thread is doing.
plot_attack ==
    /\ window = "open"
    /\ sim_gui = "idle"
    /\ simulate_attack("gui")
    /\ sim_gui' = "plot_attack"
    /\ UNCHANGED <<mon_vars, sim_running, thread, run_pc, stats, cooldown_over,
                   attack_detected, start_btn, window, sessions, normals, stopped,
                   stats_at_stop>>

\* deauth_simulator.py:761-764, 148-151  closeEvent: the window is closed.  If
\* the detector thread is running, stop() sets running = False and waits for it;
\* else the event is accepted at once.
close_call ==
    /\ window = "open"
    /\ sim_gui = "idle"
    /\ IF isRunning
       THEN /\ sim_running' = FALSE
            /\ sim_gui' = "close_wait"
            /\ stats_at_stop' = get_stats
            /\ window' = window
       ELSE /\ window' = "closed"
            /\ UNCHANGED <<sim_running, sim_gui, stats_at_stop>>
    /\ UNCHANGED <<mon_vars, thread, run_pc, attack_active, stats, cooldown_over,
                   attack, attack_detected, start_btn, sessions, attacks, normals,
                   stopped>>

\* deauth_simulator.py:151, 765-766  stop()'s wait() returns once run() has
\* returned; wait(2000) returns at once and the event is accepted.  The buttons
\* are left as they were.
close_return ==
    /\ sim_gui = "close_wait"
    /\ ~isRunning
    /\ sim_gui' = "idle"
    /\ window' = "closed"
    /\ stopped' = TRUE
    /\ stats_at_stop' = NoStats
    /\ UNCHANGED <<mon_vars, sim_running, thread, run_pc, attack_active, stats,
                   cooldown_over, attack, attack_detected, start_btn, sessions, attacks,
                   normals>>

NextSim ==
    \/ start_detection
    \/ run_begin
    \/ run_while
    \/ run_test
    \/ run_attack
    \/ run_no_attack
    \/ \E c \in Callers : attack_packet(c)
    \/ \E c \in Callers : attack_log_total(c)
    \/ \E c \in Callers : attack_log_deauth(c)
    \/ \E c \in Callers : attack_detect(c)
    \/ \E c \in Callers : attack_over(c)
    \/ attack_end_run
    \/ attack_end_gui
    \/ run_normal
    \/ run_log_total
    \/ run_log_deauth
    \/ run_sleep
    \/ cooldown_elapses
    \/ stop_call
    \/ stop_return
    \/ plot_attack
    \/ close_call
    \/ close_return

SpecSim == Init /\ [][NextSim]_vars


\* The detector thread is inside process_packet, called for a deauthentication
\* frame.
Ingesting == pc \notin {"idle", "raised"}

\* The step with which an ingest ends: process_packet, called for a
\* deauthentication frame, returns or is left by an exception.
IngestStep == Ingesting /\ pc' \in {"idle", "raised"}

\* The step with which an ingest returns.
IngestReturns == Ingesting /\ pc' = "idle"

\* The step of detector.py:39, which filters the window.
EvictionStep == pc = "l34" /\ pc' = "l40"

\* The timestamp of the event ingested last.
LastTs == events[Len(events)].ts

\* The last line of the console.
LastMsg == console_output[Len(console_output)]

\* All the events lie within one time window of each other.
AllWithinWindow(evs) ==
    \A i \in DOMAIN evs : \A j \in DOMAIN evs : evs[i].ts - evs[j].ts <= time_window

\* How often v occurs in the sequence s.
Occurrences(s, v) == Cardinality({i \in DOMAIN s : s[i] = v})

\* C1: while all the ingested timestamps lie within one time_window of each
\* other, every ingest that brings the number of ingested events to threshold
\* or beyond raises an alert and adds exactly one to alerts_triggered.
C1_Refire ==
    [][ (IngestStep /\ threshold > 0 /\ time_window > 0
            /\ AllWithinWindow(events') /\ Len(events') >= threshold)
        => /\ alerts_triggered' = alerts_triggered + 1
           /\ console_output'[Len(console_output')].kind = "alert" ]_vars

\* C1 for the ingests that return.
C1_RefireReturned ==
    [][ (IngestReturns /\ AllWithinWindow(events') /\ Len(events') >= threshold)
        => /\ alerts_triggered' = alerts_triggered + 1
           /\ console_output'[Len(console_output')].kind = "alert" ]_vars

\* C2: an ingest raises an alert, and adds exactly one to alerts_triggered,
\* if and only if the window after eviction holds at least threshold
\* timestamps; otherwise alerts_triggered is unchanged; no other step changes
\* alerts_triggered, and none of the first threshold-1 events alerts.
C2_AlertIff ==
    [][ /\ (IngestStep /\ threshold > 0 /\ time_window > 0) =>
            /\ alerts_triggered' \in {alerts_triggered, alerts_triggered + 1}
            /\ (alerts_triggered' = alerts_triggered + 1)
                   <=> (Len(packet_times') >= threshold)
            /\ (console_output'[Len(console_output')].kind = "alert")
                   <=> (Len(packet_times') >= threshold)
            /\ (Len(events') < threshold => alerts_triggered' = 0)
        /\ ~IngestStep => alerts_triggered' = alerts_triggered ]_vars

\* C2 for the ingests that return.
C2_AlertIffReturned ==
    [][ /\ IngestReturns =>
            /\ alerts_triggered' \in {alerts_triggered, alerts_triggered + 1}
            /\ (alerts_triggered' = alerts_triggered + 1)
                   <=> (Len(packet_times') >= threshold)
            /\ (console_output'[Len(console_output')].kind = "alert")
                   <=> (Len(packet_times') >= threshold)
            /\ (Len(events') < threshold => alerts_triggered' = 0)
        /\ ~IngestReturns => alerts_triggered' = alerts_triggered ]_vars

\* C3: after an ingest no retained timestamp is more than time_window before
\* the timestamp ingested last.
C3_EvictionCorrect ==
    (~Ingesting /\ events # <<>> /\ threshold > 0 /\ time_window > 0) =>
        \A i \in DOMAIN packet_times : LastTs - packet_times[i] <= time_window

\* C3 for the ingests that return.
C3_EvictionCorrectReturned ==
    (pc = "idle" /\ events # <<>>) =>
        \A i \in DOMAIN packet_times : LastTs - packet_times[i] <= time_window

\* C4: total_deauth_packets equals the number of events ingested: of the
\* calls that have ended and, inside a call, of those and the one in progress
\* (line 27 counts the event before line 28 stamps it).
C4_TotalIsN ==
    total_deauth_packets = Len(events) + (IF pc = "l28" THEN 1 ELSE 0)

\* C4 witness: several events were ingested, some alerted and some of their
\* timestamps were evicted.
C4_Witness ==
    /\ pc = "idle"
    /\ threshold >= 1
    /\ time_window >= 1
    /\ total_deauth_packets >= 3
    /\ alerts_triggered >= 1
    /\ alerts_triggered < total_deauth_packets
    /\ Len(packet_times) < total_deauth_packets

\* C5: suspicious_macs is the set of the distinct transmitter addresses of
\* the events ingested, whatever their order, their repetitions and the
\* evictions.
C5_DistinctAddresses ==
    /\ suspicious_macs = {events[i].mac : i \in DOMAIN events}
    /\ Cardinality(suspicious_macs)
           = Cardinality({m \in Macs : \E i \in DOMAIN events : events[i].mac = m})

\* C5 witness: an address was repeated, another one seen, and the timestamp
\* of the first event was evicted while its address stayed.
C5_Witness ==
    /\ Len(events) = 3
    /\ events[1].mac # events[2].mac
    /\ events[3].mac = events[1].mac
    /\ Cardinality(suspicious_macs) = 2
    /\ threshold >= 1
    /\ time_window >= 1
    /\ LastTs - events[1].ts > time_window
    /\ Len(packet_times) <= 2

\* C6: in every state reached after stop(), an ingest fails and leaves the
\* counters as they were: once stop() has returned, no step changes stats.
C6_NoIngestAfterStop ==
    [][ stopped => stats' = stats ]_vars

\* C7: no session has a threshold or a time window that is not positive.
C7_InvalidConfigRejected ==
    detector = "DeAuthDetector" => (threshold > 0 /\ time_window > 0)

\* C8: every alert line written reports the number of timestamps in the
\* window after the eviction of the ingest that writes it, that number is at
\* least threshold, and the ingest goes on to count the alert.
C8_WindowCount ==
    [][ /\ \A i \in (Len(console_output) + 1)..Len(console_output') :
              console_output'[i].kind = "alert" =>
                  /\ pc = "l40"
                  /\ console_output'[i].count = Len(packet_times')
                  /\ console_output'[i].count >= threshold
                  /\ pc' = "l43"
        /\ pc = "l43" => (IngestStep => alerts_triggered' = alerts_triggered + 1) ]_vars

\* C8 witness: an alert reported a window smaller than the number of events
\* ingested, because some had been evicted.
C8_Witness ==
    /\ threshold >= 2
    /\ time_window >= 1
    /\ Len(events) = 3
    /\ LastMsg.kind = "alert"
    /\ LastMsg.count = 2
    /\ Len(packet_times) = 2

\* C9: an ingest whose timestamp exceeds every earlier ingested timestamp by
\* more than time_window leaves exactly that timestamp in the window and,
\* with threshold > 1, raises no alert.
C9_WindowExpiry ==
    [][ (IngestStep /\ Len(events') >= 2
            /\ \A i \in 1..(Len(events') - 1) : cur_ts - events'[i].ts > time_window)
        => /\ packet_times' = <<cur_ts>>
           /\ threshold > 1 => alerts_triggered' = alerts_triggered ]_vars

\* C9 for the ingests that return, in sessions whose time window is not
\* negative.
C9_WindowExpiryValidWindow ==
    [][ (time_window >= 0 /\ IngestReturns /\ Len(events') >= 2
            /\ \A i \in 1..(Len(events') - 1) : cur_ts - events'[i].ts > time_window)
        => /\ packet_times' = <<cur_ts>>
           /\ threshold > 1 => alerts_triggered' = alerts_triggered ]_vars

\* C10: the eviction of an ingest at ts keeps every timestamp t with
\* ts - t <= time_window, the boundary ts - t = time_window included, as often
\* as it was in the window, and drops every t with ts - t > time_window; the
\* kept ones are what is compared with the threshold.
C10_StrictBoundary ==
    [][ /\ EvictionStep =>
            LET values == {packet_times[i] : i \in DOMAIN packet_times}
                retained == {i \in DOMAIN packet_times :
                                 ~(cur_ts - packet_times[i] > time_window)}
            IN  /\ \A v \in values :
                      Occurrences(packet_times', v) =
                          IF cur_ts - v > time_window THEN 0
                          ELSE Occurrences(packet_times, v)
                /\ \A i \in DOMAIN packet_times' : packet_times'[i] \in values
                /\ Len(packet_times') = Cardinality(retained)
        /\ (pc = "l40" /\ pc' # "l40") =>
            /\ packet_times' = packet_times
            /\ (pc' = "l43") <=> (Len(packet_times) >= threshold) ]_vars

\* C10 witness: a timestamp exactly time_window old was kept, and it was
\* needed to reach the threshold of the alert raised.
C10_Witness ==
    /\ threshold >= 2
    /\ time_window >= 1
    /\ events # <<>>
    /\ Len(packet_times) = threshold
    /\ LastTs - packet_times[1] = time_window
    /\ LastMsg.kind = "alert"
    /\ LastMsg.count = threshold

\* The events were ingested with non-decreasing timestamps.
NonDecreasing(evs) ==
    \A i \in DOMAIN evs : \A j \in DOMAIN evs : i <= j => evs[i].ts <= evs[j].ts

\* The largest number of events that share one timestamp.
PeakRate(evs) ==
    IF evs = <<>> THEN 0
    ELSE LET n(i) == Cardinality({j \in DOMAIN evs : evs[j].ts = evs[i].ts})
         IN  CHOOSE k \in 1..Len(evs) :
                /\ \E i \in DOMAIN evs : n(i) = k
                /\ \A i \in DOMAIN evs : n(i) <= k

\* C11 as stated: in every state of a running session with a valid
\* configuration, every retained timestamp t satisfies now - t <= time_window,
\* now being the current time.
C11_FreshAtCurrentTime ==
    (detector = "DeAuthDetector" /\ running /\ threshold > 0 /\ time_window > 0)
        => \A i \in DOMAIN packet_times : now - packet_times[i] <= time_window

\* C11 amended: when an ingest has filtered the window, every retained
\* timestamp t satisfies ts - t <= time_window, ts being the timestamp of that
\* event; no other step removes a timestamp, so between ingests the window is
\* not re-evicted.
C11_FreshAtIngest ==
    [][ /\ EvictionStep =>
            \A i \in DOMAIN packet_times' : cur_ts - packet_times'[i] <= time_window'
        /\ (~EvictionStep /\ detector = "DeAuthDetector")
               => \/ packet_times' = packet_times
                  \/ pc = "l28" /\ packet_times' = Append(packet_times, cur_ts') ]_vars

\* C11 witness: time went on after an ingest and a retained timestamp is now
\* older than the window, though it was not when it was ingested.
C11_Witness ==
    /\ detector = "DeAuthDetector"
    /\ running
    /\ threshold >= 1
    /\ time_window >= 1
    /\ Len(packet_times) >= 2
    /\ now - packet_times[1] > time_window
    /\ LastTs - packet_times[1] <= time_window

\* C12: when the events arrived with non-decreasing timestamps, packet_times
\* is sorted ascending, oldest first.
C12_SortedAscending ==
    NonDecreasing(events) =>
        \A i \in DOMAIN packet_times : \A j \in DOMAIN packet_times :
            i <= j => packet_times[i] <= packet_times[j]

\* C12 witness: a window of several different timestamps, after an eviction.
C12_Witness ==
    /\ threshold >= 1
    /\ time_window >= 1
    /\ NonDecreasing(events)
    /\ Len(events) = 3
    /\ Len(packet_times) = 2
    /\ packet_times[1] < packet_times[2]

\* C15: no step decreases total_deauth_packets or alerts_triggered.
C15_CountersMonotone ==
    [][ /\ total_deauth_packets' >= total_deauth_packets
        /\ alerts_triggered' >= alerts_triggered ]_vars

\* C15 witness: a session that has counted events and alerts and has evicted
\* timestamps: the window shrank, the counters did not.
C15_Witness ==
    /\ detector = "DeAuthDetector"
    /\ threshold >= 1
    /\ time_window >= 1
    /\ total_deauth_packets >= 2
    /\ alerts_triggered >= 1
    /\ Len(packet_times) < total_deauth_packets

\* C19: no step of an ingest, in a session with a valid configuration,
\* writes to the console or to the log file.
C19_NoIO ==
    [][ (Ingesting /\ threshold > 0 /\ time_window > 0)
        => UNCHANGED <<console_output, log_file>> ]_vars

\* C20: with non-decreasing timestamps and at most k events per time unit,
\* the window never holds more than k * (time_window + 1) timestamps after an
\* ingest has returned, and never more than one above that, however many
\* events were ingested.
C20_BoundedWindow ==
    NonDecreasing(events) =>
        Len(packet_times) <=
            (IF time_window < 0 THEN 0 ELSE PeakRate(events) * (time_window + 1))
                + (IF pc = "idle" THEN 0 ELSE 1)

\* C20 witness: more events were ingested than the bound allows the window
\* to hold, and after the last ingest the window is at the bound.
C20_Witness ==
    /\ pc = "idle"
    /\ threshold >= 1
    /\ time_window >= 1
    /\ NonDecreasing(events)
    /\ PeakRate(events) = 1
    /\ Len(events) > time_window + 1
    /\ Len(packet_times) = time_window + 1

\* C14 as stated: the counters update_stats shows are those of a state
\* between two ingests, never those of a partly applied ingest (sessions with
\* a valid configuration, once both threads are at rest).
C14_ConsistentSnapshot ==
    (pc = "idle" /\ gui_pc = "idle" /\ threshold > 0 /\ time_window > 0)
        => stats_label \in boundaries

\* C17: no step of update_stats changes the window, the address set, the
\* counters, the configuration or the state of the session.
C17_PureRead ==
    [][ gui_pc' # gui_pc => UNCHANGED det_vars ]_vars

\* C17 witness: the statistics were read and shown after events had been
\* counted.
C17_Witness ==
    /\ refreshes >= 1
    /\ gui_pc = "idle"
    /\ threshold >= 1
    /\ time_window >= 1
    /\ stats_label.total >= 1
    /\ stats_label.alerts >= 1
    /\ stats_label.macs # {}
    /\ suspicious_macs = stats_label.macs
    /\ total_deauth_packets = stats_label.total

\* C18: window membership and eviction are decided by the ingested event's
\* own timestamp, pkt.time, not by the clock reading at which it is processed:
\* the timestamp that enters the window is pkt.time and the entries kept are
\* those within time_window of it; and an event whose timestamp is earlier
\* than the one before is ingested with total_deauth_packets and
\* suspicious_macs right.
C18_EventTimestamp ==
    [][ /\ (pc = "l28" /\ pc' = "l32") =>
              packet_times' = Append(packet_times, pkt_time)
        /\ EvictionStep =>
              \A i \in DOMAIN packet_times :
                  Occurrences(packet_times', packet_times[i]) =
                      IF pkt_time - packet_times[i] > time_window
                      THEN 0
                      ELSE Occurrences(packet_times, packet_times[i])
        /\ IngestReturns =>
              /\ total_deauth_packets' = Len(events')
              /\ suspicious_macs' = {events'[i].mac : i \in DOMAIN events'}
              /\ alerts_triggered' <= total_deauth_packets' ]_vars

\* C18, what the code does: the timestamp that enters the window and decides
\* the eviction is the clock reading of line 28, whatever pkt.time is; every
\* ingest that returns leaves the counters right, whatever the order of the
\* timestamps.
C18_ProcessingTime ==
    [][ /\ (pc = "l28" /\ pc' = "l32") =>
              /\ packet_times' = Append(packet_times, now)
              /\ cur_ts' = now
        /\ EvictionStep =>
              \A i \in DOMAIN packet_times :
                  Occurrences(packet_times', packet_times[i]) =
                      IF cur_ts - packet_times[i] > time_window
                      THEN 0
                      ELSE Occurrences(packet_times, packet_times[i])
        /\ IngestReturns =>
              /\ total_deauth_packets' = Len(events')
              /\ suspicious_macs' = {events'[i].mac : i \in DOMAIN events'}
              /\ alerts_triggered' <= total_deauth_packets' ]_vars

\* C18, the state the code reaches: two frames captured more than time_window
\* apart were processed at one clock reading, and the second raised an alert
\* on a window of two.
C18_AlertOnProcessingTime ==
    /\ pc = "l43"
    /\ threshold = 2
    /\ time_window = 1
    /\ Len(events) = 2
    /\ events[1].time = 0
    /\ events[2].time = 2
    /\ packet_times = <<2, 2>>

\* C13: a session moves only Created -> Running -> Stopped, and Stopped is
\* terminal: once stop() has returned the session never runs again and never
\* logs another packet.
C13_StoppedIsTerminal ==
    [][ stopped => /\ ~sim_running'
                   /\ stats'.total = stats.total ]_vars

\* C16: stop() leaves the counters as they are: when stop() returns,
\* get_stats() gives the counters it gave when stop() was called.
C16_StopKeepsStatistics ==
    [][ (sim_gui \in {"stop_wait", "close_wait"} /\ sim_gui' = "idle")
            => get_stats = stats_at_stop ]_vars

\* The specified eviction: timestamps are removed from the front only, while
\* the front is older than time_window with respect to the event's timestamp.
RECURSIVE EvictFront(_, _, _)
EvictFront(times, ts, tw) ==
    IF times # <<>> /\ ts - Head(times) > tw
    THEN EvictFront(Tail(times), ts, tw)
    ELSE times

\* C21: when the events arrive with non-decreasing timestamps, the window
\* the eviction of an ingest yields (the whole list filtered by
\* ts - t <= time_window) is the window the front-only eviction yields from
\* the same list.
C21_FrontEvictionSame ==
    [][ (EvictionStep /\ NonDecreasing(events))
            => packet_times' = EvictFront(packet_times, cur_ts, time_window) ]_vars

\* C21 witness: three events in time order, the third of which evicted the
\* two before it in one ingest.
C21_Witness ==
    /\ threshold >= 1
    /\ time_window >= 1
    /\ Len(events) = 3
    /\ NonDecreasing(events)
    /\ events[2].ts - events[1].ts <= time_window
    /\ events[3].ts - events[2].ts > time_window
    /\ packet_times = <<events[3].ts>>

\* A step in which sniff() handed process_packet a frame that is not a
\* deauthentication frame.
OtherFrameStep == sniffed' = sniffed + 1 /\ pc' = "idle"

\* C22: a captured frame that is not a deauthentication frame leaves
\* total_deauth_packets, packet_times, suspicious_macs and alerts_triggered
\* as they were, and nothing is written to the console or the log; a station
\* that sends no deauthentication frame is never counted or listed.
C22_OtherFramesIgnored ==
    [][ /\ OtherFrameStep
            => UNCHANGED <<total_deauth_packets, packet_times, suspicious_macs,
                           alerts_triggered, console_output, log_file, events>>
        /\ cur_mac' \notin Others
        /\ suspicious_macs' \cap Others = {} ]_vars

\* C22 witness: a frame that is not a deauthentication frame was captured in
\* a session whose window stands at the threshold, and only the
\* deauthentication frames were counted and alerted on.
C22_Witness ==
    /\ threshold >= 1
    /\ time_window >= 1
    /\ sniffed = 3
    /\ Len(events) = 2
    /\ total_deauth_packets = 2
    /\ Len(packet_times) >= threshold
    /\ alerts_triggered = 2
    /\ LastMsg.kind = "alert"

\* C23: in every state of a session with threshold >= 1, between ingests and
\* inside one, alerts_triggered, the length of packet_times and the number of
\* suspicious addresses are each at most total_deauth_packets.
C23_BoundedByTotal ==
    (detector = "DeAuthDetector" /\ threshold >= 1)
        => /\ alerts_triggered <= total_deauth_packets
           /\ Len(packet_times) <= total_deauth_packets
           /\ Cardinality(suspicious_macs) <= total_deauth_packets

\* C23 witness: after two ingests all three quantities have reached the total.
C23_Witness ==
    /\ detector = "DeAuthDetector"
    /\ threshold >= 1
    /\ time_window >= 1
    /\ pc = "idle"
    /\ total_deauth_packets = 2
    /\ alerts_triggered = 2
    /\ Len(packet_times) = 2
    /\ Cardinality(suspicious_macs) = 2

\* C24: with time_window >= 0, right after every ingest packet_times is not
\* empty and holds the timestamp of the frame just ingested; so a session with
\* threshold = 1 alerts on every frame.
C24_OwnTimestampKept ==
    [][ (IngestStep /\ time_window >= 0)
            => /\ packet_times' # <<>>
               /\ packet_times'[Len(packet_times')] = events'[Len(events')].ts
               /\ threshold = 1 =>
                     /\ alerts_triggered' = alerts_triggered + 1
                     /\ console_output'[Len(console_output')].kind = "alert" ]_vars

\* C24 for the ingests that return.
C24_OwnTimestampKeptReturned ==
    [][ (IngestReturns /\ time_window >= 0)
            => /\ packet_times' # <<>>
               /\ packet_times'[Len(packet_times')] = events'[Len(events')].ts
               /\ threshold = 1 =>
                     /\ alerts_triggered' = alerts_triggered + 1
                     /\ console_output'[Len(console_output')].kind = "alert" ]_vars

\* C25: after start() and stop() the run loop exits and stop()'s wait()
\* returns, whatever the interleaving; in particular, while stop() waits, the
\* running = False it wrote is not overwritten by run() writing running = True.
C25_StopNotOverwritten ==
    [][ (sim_gui = "stop_wait" \/ sim_gui = "close_wait")
            => sim_running' = sim_running ]_vars

\* The callers that are inside simulate_attack.
InAttack == {c \in Callers : attack[c].type # "none"}

\* C26: at most one simulate_attack is in progress at any time, and
\* attack_active is true whenever one is, also when plot_attack forces an
\* attack while the run loop is active.
C26_OneAttackAtATime ==
    /\ Cardinality(InAttack) <= 1
    /\ InAttack # {} => attack_active

\* The calls of simulate_attack that have returned.
CompletedAttacks == attacks - Cardinality(InAttack)

\* The callers whose attack in progress has emitted attack_detected: those
\* past the iteration i = int(packets * 0.3).
Emitted == {c \in InAttack : 10 * attack[c].i > 3 * attack[c].packets}

\* C27: every attack emits attack_detected exactly once, after a packet was
\* logged and before it completes, and adds one to stats["alerts"] when it
\* completes: the emissions are those of the completed attacks and of the
\* attacks in progress past their detection point, an attack in progress has
\* logged a packet before it emits, stats["alerts"] is the number of
\* completed attacks and never exceeds the emissions.
C27_AlertsCountAttacks ==
    /\ attack_detected = CompletedAttacks + Cardinality(Emitted)
    /\ \A c \in Emitted : attack[c].i >= 1 /\ stats.deauth >= 1
    /\ stats.alerts = CompletedAttacks
    /\ stats.alerts <= attack_detected

\* C27 witness: the run loop's attack and an attack forced by plot_attack
\* were in progress together; one has completed and was counted, the other
\* has emitted and stands before its own count.
C27_Witness ==
    /\ attacks = 2
    /\ attack["gui"].at = "l102"
    /\ attack["run"].type = "none"
    /\ run_pc = "normal"
    /\ stats.alerts = 1
    /\ attack_detected = 2
    /\ stats.deauth = MinAttackPackets + MaxAttackPackets

\* The detector threads that are sniffing.
Capturing ==
    (IF sniffing = "active" THEN 1 ELSE 0)
        + Cardinality({k \in DOMAIN replaced : replaced[k].sniffing = "active"})

RECURSIVE CountedByReplaced(_)
\* The deauthentication frames counted by the replaced detectors.
CountedByReplaced(ds) ==
    IF ds = <<>> THEN 0
    ELSE Head(ds).total_deauth_packets + CountedByReplaced(Tail(ds))

\* C28: at most one detector thread is capturing at any time, and the total
\* update_stats shows (gui.detector.total_deauth_packets) covers every
\* deauthentication frame processed since monitoring was first started.
C28_OneCapturingSession ==
    /\ Capturing <= 1
    /\ CountedByReplaced(replaced) = 0
====
